---- MODULE Spec2Model ----
(***************************************************************************)
(* Model of the bang redirector (core/src/bangs.rs) and of the ranking     *)
(* SignalComputer (crates/core/src/ranking/signal/computer/mod.rs).        *)
(*                                                                         *)
(* Strings are sequences of one-character strings, so that str::replace    *)
(* and the joining of terms are computed character by character.           *)
(* Option<T> is a sequence of length at most one: None is <<>> and         *)
(* Some(x) is <<x>>.                                                       *)
(***************************************************************************)
EXTENDS Integers, Sequences, FiniteSets, TLC

VARIABLES
    bangs,      \* Bangs.bangs: HashMap<String, Bang>, a function tag -> Bang
    loadInput,  \* the source handed to from_json / from_path (None before load)
    loadState,  \* "start" | "loaded" | "panicked"
    query,      \* the terms handed to the last Bangs::get
    hit,        \* what the last Bangs::get returned: Option<BangHit>
    comps,      \* the SignalComputers: slot -> Option<SignalComputer>
    calls,      \* per slot: the boosts calls made on the current binding
    ret         \* the last return value of a SignalComputer operation

bangVars == <<bangs, loadInput, loadState, query, hit>>
compVars == <<comps, calls, ret>>
vars == <<bangs, loadInput, loadState, query, hit, comps, calls, ret>>

None == <<>>
Some(x) == <<x>>
IsSome(o) == Len(o) = 1
Unwrap(o) == o[1]

MinOf(S) == CHOOSE x \in S : \A y \in S : x <= y

(***************************************************************************)
(* Bounds                                                                  *)
(***************************************************************************)
MaxTerms == 3     \* longest query handed to Bangs::get
MaxBangs == 2     \* longest array of bang records loaded
MaxDoc == 3       \* doc ids handed to boosts are 0..MaxDoc
MaxCalls == 2     \* boosts calls recorded, over the current segment bindings

(***************************************************************************)
(* Strings                                                                 *)
(***************************************************************************)
BANG_PREFIX == "!"
PLACEHOLDER == <<"{", "{", "{", "s", "}", "}", "}">>
SPACE == <<" ">>

\* s[i..] starts with pat
StartsWithAt(s, i, pat) ==
    /\ i + Len(pat) - 1 <= Len(s)
    /\ \A k \in 1..Len(pat) : s[i + k - 1] = pat[k]

\* str::replace: every non-overlapping match of pat, scanning left to right,
\* is replaced by rep; the replacement text is not scanned again.
RECURSIVE ReplaceFrom(_, _, _, _)
ReplaceFrom(s, i, pat, rep) ==
    IF i > Len(s) THEN <<>>
    ELSE IF StartsWithAt(s, i, pat)
         THEN rep \o ReplaceFrom(s, i + Len(pat), pat, rep)
         ELSE <<s[i]>> \o ReplaceFrom(s, i + 1, pat, rep)

Replace(s, pat, rep) == ReplaceFrom(s, 1, pat, rep)

\* itertools::intersperse(items, sep).collect::<String>()
RECURSIVE Intersperse(_, _)
Intersperse(items, sep) ==
    IF Len(items) = 0 THEN <<>>
    ELSE IF Len(items) = 1 THEN items[1]
    ELSE items[1] \o sep \o Intersperse(Tail(items), sep)

(***************************************************************************)
(* Terms of a parsed query                                                 *)
(***************************************************************************)
Word(w) == [kind |-> "Word", text |-> w]
PossibleBang(t) == [kind |-> "PossibleBang", text |-> t]

\* Display of a Term: a word is its text, a possible bang is '!' and its tag
TermToString(term) ==
    IF term.kind = "PossibleBang" THEN <<BANG_PREFIX>> \o term.text
    ELSE term.text

TagTy == <<"t", "y">>
TagXx == <<"x", "x">>

TermPool == {Word(<<"a", "b">>), PossibleBang(TagTy), PossibleBang(TagXx)}

RECURSIVE SeqsUpTo(_, _)
SeqsUpTo(S, n) ==
    IF n = 0 THEN {<<>>}
    ELSE LET shorter == SeqsUpTo(S, n - 1)
         IN  shorter \cup {Append(q, x) : q \in {p \in shorter : Len(p) = n - 1}, x \in S}

Queries == SeqsUpTo(TermPool, MaxTerms)

(***************************************************************************)
(* Bang records and the sources they are loaded from                       *)
(***************************************************************************)
\* A url template is written as the pieces around its placeholders.
TemplatePieces == {
    <<<<"q", "=">>>>,                     \* no placeholder
    <<<<"y", "?">>, <<>>>>,               \* one placeholder, at the end
    <<<<"{">>, <<"/">>, <<"}">>>>         \* two placeholders, braces around
}

Render(pieces, filler) == Intersperse(pieces, filler)

Templates == {Render(p, PLACEHOLDER) : p \in TemplatePieces}

\* struct Bang; the optional descriptive fields are carried in `site`
Bang(tag, url, site) == [tag |-> tag, url |-> url, site |-> site]

BangPool == {Bang(TagTy, u, Some("Youtube")) : u \in Templates}
                \cup {Bang(TagXx, Render(<<<<"y", "?">>, <<>>>>, PLACEHOLDER), None),
                      Bang(TagXx, Render(<<<<"q", "=">>>>, PLACEHOLDER), None)}

Malformed == [kind |-> "malformed"]
BangArray(records) == [kind |-> "array", records |-> records]

JsonSources == {Malformed} \cup {BangArray(r) : r \in SeqsUpTo(BangPool, MaxBangs)}

Unreadable == [kind |-> "unreadable"]

\* what fs::read_to_string finds at a path: no file, or a file with a content
Files == {Unreadable} \cup {[kind |-> "file", content |-> j] : j \in JsonSources}

(***************************************************************************)
(* Bangs                                                                   *)
(***************************************************************************)
EmptyMap == [k \in {} |-> None]

\* an insert that keeps the value a key already has
InsertKeepFirst(m, k, v) == [x \in DOMAIN m \cup {k} |-> IF x \in DOMAIN m THEN m[x] ELSE v]

\* HashMap::insert: a later value under the same key replaces the earlier one
Insert(m, k, v) == [x \in DOMAIN m \cup {k} |-> IF x = k THEN v ELSE m[x]]

\* all_bangs.into_iter().map(|bang| (bang.tag.clone(), bang)).collect()
RECURSIVE Collect(_, _)
Collect(m, records) ==
    IF Len(records) = 0 THEN m
    ELSE Collect(Insert(m, records[1].tag, records[1]), Tail(records))

\* serde_json::from_str::<Vec<Bang>>(json): Ok(records) or Err
ParseBangs(json) == IF json.kind = "array" THEN Some(json.records) ELSE None

\* a filter that drops every possible bang, known or not
RemainingWithoutBangs(terms, possible_bang) ==
    SelectSeq(terms, LAMBDA term : term.kind # "PossibleBang")

\* the terms get puts in the redirect: every term except the possible bangs
\* whose tag equals the chosen one
Remaining(terms, possible_bang) ==
    SelectSeq(terms, LAMBDA term :
        IF term.kind = "PossibleBang" THEN term.text # possible_bang ELSE TRUE)

TermStrings(terms) == [i \in 1..Len(terms) |-> TermToString(terms[i])]

BangHit(bang, terms, possible_bang) ==
    [bang |-> bang,
     redirect_to |-> Replace(bang.url, PLACEHOLDER,
                             Intersperse(TermStrings(Remaining(terms, possible_bang)), SPACE))]

\* a loop in which the last known possible bang wins
RECURSIVE GetFromLast(_, _, _)
GetFromLast(table, terms, i) ==
    IF i > Len(terms) THEN None
    ELSE LET later == GetFromLast(table, terms, i + 1)
         IN  IF IsSome(later) THEN later
             ELSE IF terms[i].kind = "PossibleBang" /\ terms[i].text \in DOMAIN table
                  THEN Some(BangHit(table[terms[i].text], terms, terms[i].text))
                  ELSE None

\* Bangs::get: the loop over the possible bangs of terms, from term i on
RECURSIVE GetFrom(_, _, _)
GetFrom(table, terms, i) ==
    IF i > Len(terms) THEN None
    ELSE IF terms[i].kind = "PossibleBang" /\ terms[i].text \in DOMAIN table
         THEN Some(BangHit(table[terms[i].text], terms, terms[i].text))
         ELSE GetFrom(table, terms, i + 1)

Get(table, terms) == GetFrom(table, terms, 1)

\* Bangs::from_json: unwrap panics on a parse error
FromJson(json) ==
    /\ loadState = "start"
    /\ loadInput' = Some(json)
    /\ IF IsSome(ParseBangs(json))
       THEN /\ bangs' = Collect(EmptyMap, Unwrap(ParseBangs(json)))
            /\ loadState' = "loaded"
       ELSE /\ bangs' = bangs
            /\ loadState' = "panicked"
    /\ UNCHANGED <<query, hit, compVars>>

\* Bangs::from_path: unwrap panics when the file cannot be read
FromPath(file) ==
    /\ loadState = "start"
    /\ IF file.kind = "file"
       THEN /\ loadInput' = Some(file.content)
            /\ IF IsSome(ParseBangs(file.content))
               THEN /\ bangs' = Collect(EmptyMap, Unwrap(ParseBangs(file.content)))
                    /\ loadState' = "loaded"
               ELSE /\ bangs' = bangs
                    /\ loadState' = "panicked"
       ELSE /\ loadInput' = Some(file)
            /\ bangs' = bangs
            /\ loadState' = "panicked"
    /\ UNCHANGED <<query, hit, compVars>>

\* a call of Bangs::get on the loaded table
BangsGet(terms) ==
    /\ loadState = "loaded"
    /\ query' = terms
    /\ hit' = Get(bangs, terms)
    /\ UNCHANGED <<bangs, loadInput, loadState, compVars>>

(***************************************************************************)
(* Signals, coefficients, optic rules                                      *)
(***************************************************************************)
Signals == {"bm25_title", "host_centrality", "fetch_time_ms"}

\* Signal::default_coefficient of the signal registry
DefaultCoefficient(signal) ==
    CASE signal = "bm25_title" -> 15
      [] signal = "host_centrality" -> 1
      [] OTHER -> 0

\* SignalCoefficient::get: the query's value, the default where it has none
SignalCoefficientGet(coefficients, signal) ==
    IF signal \in DOMAIN coefficients THEN coefficients[signal]
    ELSE DefaultCoefficient(signal)

\* EnumMap::get of LinearRegression.weights
WeightsGet(weights, signal) ==
    IF signal \in DOMAIN weights THEN Some(weights[signal]) ELSE None

Boost(b) == [kind |-> "Boost", b |-> b]
Downrank(b) == [kind |-> "Downrank", b |-> b]
Discard == [kind |-> "Discard", b |-> 0]

Rule(name, action) == [name |-> name, action |-> action]

\* the signed boost as_searchable_rule gives a rule: negative for a downrank
RuleBoostOf(rule) ==
    IF rule.action.kind = "Downrank" THEN 0 - rule.action.b ELSE rule.action.b

TheQuery ==
    [simple_terms |-> <<"rust">>,
     optics |-> <<Rule("r1", Boost(2)), Rule("r2", Downrank(5)), Rule("r3", Boost(1)),
                  Rule("r4", Discard), Rule("r5", Boost(0))>>,
     region |-> None,
     signal_coefficients |-> Some([s \in {"bm25_title"} |-> 7])]

\* Option<&Query> handed to SignalComputer::new
QueryInputs == {None, Some(TheQuery)}

TheModel == [weights |-> [s \in {"bm25_title", "host_centrality"} |-> 3]]

\* seconds since the epoch, as the clock or a caller supplies them
Timestamps == {100, 200}
ClockNow == MinOf(Timestamps)
FetchTimeCacheLen == 1000
UpdateTimeCacheLen == 3 * 365 * 24

(***************************************************************************)
(* Docsets and index segments                                              *)
(***************************************************************************)
TERMINATED == 2147483647
Docs == 0..MaxDoc

\* a scorer as the segment hands it out: positioned on its first doc
NewDocSet(docs) == [docs |-> docs, cursor |-> IF docs = {} THEN TERMINATED ELSE MinOf(docs)]

\* DocSet::doc
DocOf(docset) == docset.cursor

\* DocSet::seek(target), called with doc() <= target: the cursor moves to
\* the first doc >= target of the set, TERMINATED when there is none
Seek(docset, target) ==
    LET ahead == {d \in docset.docs : d >= target /\ d >= docset.cursor}
    IN  [docset EXCEPT !.cursor = IF ahead = {} THEN TERMINATED ELSE MinOf(ahead)]

\* a segment of the index: what it answers for the query's rules and fields;
\* scorers[name] is None where the rule is not searchable in the schema
SegmentA ==
    [id |-> "A", read_fails |-> FALSE, text_fields |-> {"title", "body"},
     scorers |-> [n \in {"r1", "r2", "r3"} |->
                    CASE n = "r1" -> Some({0, 1, 2})
                      [] n = "r2" -> Some({1, 3})
                      [] OTHER    -> Some({0})]]
SegmentB ==
    [id |-> "B", read_fails |-> FALSE, text_fields |-> {"title"},
     scorers |-> [n \in {"r1", "r2", "r3"} |->
                    CASE n = "r1" -> Some({0, 3})
                      [] n = "r2" -> None
                      [] OTHER    -> Some({})]]
SegmentC ==
    [id |-> "C", read_fails |-> TRUE, text_fields |-> {"body"},
     scorers |-> [n \in {"r1", "r2", "r3"} |->
                    CASE n = "r1" -> Some({0})
                      [] n = "r2" -> Some({0, 1, 2, 3})
                      [] OTHER    -> None]]

\* no rule of the query is searchable in this segment
SegmentD ==
    [id |-> "D", read_fails |-> FALSE, text_fields |-> {},
     scorers |-> [n \in {"r1", "r2", "r3"} |-> None]]

Segments == {SegmentA, SegmentB, SegmentC, SegmentD}

Ok(x) == [ok |-> TRUE, val |-> x]
Err(e) == [ok |-> FALSE, val |-> e]

(***************************************************************************)
(* SignalComputer                                                          *)
(***************************************************************************)
Slots == {1, 2}

\* the rules new keeps: boosts and downranks of a magnitude other than zero
KeptRules(optics) ==
    SelectSeq(optics, LAMBDA rule :
        IF rule.action.kind \in {"Downrank", "Boost"} THEN rule.action.b # 0 ELSE FALSE)

\* SignalComputer::new
New(q, now) ==
    [query_data |->
        IF IsSome(q)
        THEN Some([simple_terms |-> Unwrap(q).simple_terms,
                   optic_rules |-> KeptRules(Unwrap(q).optics),
                   selected_region |-> Unwrap(q).region])
        ELSE None,
     query_signal_coefficients |->
        IF IsSome(q) THEN Unwrap(q).signal_coefficients ELSE None,
     segment_reader |-> None,
     inbound_similarity |-> None,
     fetch_time_ms_cache |-> FetchTimeCacheLen,
     update_time_cache |-> UpdateTimeCacheLen,
     query_centrality |-> None,
     region_count |-> None,
     current_timestamp |-> Some(now),
     linear_regression |-> None]

\* a clone that copies the bound segment as well
CloneWithSegment(c) == c

\* impl Clone for SignalComputer: every field copied, the segment dropped
CloneOf(c) ==
    [query_data |-> c.query_data,
     query_signal_coefficients |-> c.query_signal_coefficients,
     segment_reader |-> None,
     inbound_similarity |-> c.inbound_similarity,
     fetch_time_ms_cache |-> c.fetch_time_ms_cache,
     update_time_cache |-> c.update_time_cache,
     query_centrality |-> c.query_centrality,
     region_count |-> c.region_count,
     current_timestamp |-> c.current_timestamp,
     linear_regression |-> c.linear_regression]

\* prepare_textfields: Ok(the bound text fields) or the index read error;
\* the index is read only for a query with simple terms
PrepareTextfields(c, segment) ==
    IF IsSome(c.query_data) /\ Len(Unwrap(c.query_data).simple_terms) > 0
    THEN IF segment.read_fails THEN Err("IndexError")
         ELSE Ok([f \in segment.text_fields |-> segment.id])
    ELSE Ok([f \in {} |-> None])

\* prepare_optic: a RuleBoost for every rule that is searchable in the segment
PrepareOptic(c, segment) ==
    IF IsSome(c.query_data)
    THEN LET searchable == SelectSeq(Unwrap(c.query_data).optic_rules,
                                     LAMBDA rule : IsSome(segment.scorers[rule.name]))
         IN  [i \in 1..Len(searchable) |->
                [docset |-> NewDocSet(Unwrap(segment.scorers[searchable[i].name])),
                 boost |-> RuleBoostOf(searchable[i])]]
    ELSE <<>>

\* a register_segment that drops the old binding before it reads the index
RegisterResultClearing(c, segment) ==
    LET text_fields == PrepareTextfields(c, segment)
    IN  IF text_fields.ok
        THEN [c EXCEPT !.segment_reader =
                Some([text_fields |-> text_fields.val,
                      fastfield_reader |-> segment.id,
                      optic_boosts |-> PrepareOptic(c, segment)])]
        ELSE [c EXCEPT !.segment_reader = None]

\* the state register_segment leaves in self.segment_reader
RegisterResult(c, segment) ==
    LET text_fields == PrepareTextfields(c, segment)
    IN  IF text_fields.ok
        THEN [c EXCEPT !.segment_reader =
                Some([text_fields |-> text_fields.val,
                      fastfield_reader |-> segment.id,
                      optic_boosts |-> PrepareOptic(c, segment)])]
        ELSE c

\* a loop body that never moves the cursor
RuleAfterNoSeek(rule, doc) == rule

\* a loop body that positions every docset from its start, also one that is
\* already past doc
RuleAfterRewind(rule, doc) ==
    [rule EXCEPT !.docset = Seek(NewDocSet(rule.docset.docs), doc)]

\* boosts, the loop body for one rule: the rule after it
RuleAfter(rule, doc) ==
    IF DocOf(rule.docset) > doc THEN rule
    ELSE IF DocOf(rule.docset) = doc THEN rule
    ELSE [rule EXCEPT !.docset = Seek(rule.docset, doc)]

\* a loop body that counts a rule only when its cursor is already on doc
RuleCountedNoSeek(rule, doc) == DocOf(rule.docset) = doc

\* boosts, the loop body for one rule: whether the rule is counted
RuleCounted(rule, doc) ==
    IF DocOf(rule.docset) > doc THEN FALSE
    ELSE DocOf(rule.docset) = doc \/ DocOf(Seek(rule.docset, doc)) = doc

Abs(x) == IF x < 0 THEN 0 - x ELSE x

\* boosts, the sums after rules 1..n: <<downrank, boost>>
RECURSIVE BoostSums(_, _, _)
BoostSums(rules, doc, n) ==
    IF n = 0 THEN <<0, 0>>
    ELSE LET before == BoostSums(rules, doc, n - 1)
         IN  IF RuleCounted(rules[n], doc)
             THEN IF rules[n].boost < 0
                  THEN <<before[1] + Abs(rules[n].boost), before[2]>>
                  ELSE <<before[1], before[2] + rules[n].boost>>
             ELSE before

\* a fraction num/den
Ratio(num, den) == <<num, den>>

\* a multiplier that divides by the difference alone
MultiplierNoOne(downrank, boost) ==
    IF downrank > boost
    THEN Ratio(1, downrank - boost)
    ELSE Ratio(boost - downrank + 1, 1)

\* boosts, the multiplier made of the two sums
Multiplier(downrank, boost) ==
    IF downrank > boost
    THEN Ratio(1, 1 + (downrank - boost))
    ELSE Ratio(boost - downrank + 1, 1)

\* a boosts that returns None for a segment without optic rules
BoostsValueNoRules(c, doc) ==
    IF IsSome(c.segment_reader) /\ Len(Unwrap(c.segment_reader).optic_boosts) > 0
    THEN LET rules == Unwrap(c.segment_reader).optic_boosts
             sums == BoostSums(rules, doc, Len(rules))
         IN  Some(Multiplier(sums[1], sums[2]))
    ELSE None

\* SignalComputer::boosts, the value returned
BoostsValue(c, doc) ==
    IF IsSome(c.segment_reader)
    THEN LET rules == Unwrap(c.segment_reader).optic_boosts
             sums == BoostSums(rules, doc, Len(rules))
         IN  Some(Multiplier(sums[1], sums[2]))
    ELSE None

\* SignalComputer::boosts, the computer after the call
BoostsAfter(c, doc) ==
    IF IsSome(c.segment_reader)
    THEN LET rules == Unwrap(c.segment_reader).optic_boosts
         IN  [c EXCEPT !.segment_reader =
                Some([Unwrap(c.segment_reader) EXCEPT !.optic_boosts =
                        [i \in 1..Len(rules) |-> RuleAfter(rules[i], doc)]])]
    ELSE c

\* SignalComputer::coefficient
Coefficient(c, signal) ==
    IF IsSome(c.query_signal_coefficients)
    THEN SignalCoefficientGet(Unwrap(c.query_signal_coefficients), signal)
    ELSE IF IsSome(c.linear_regression)
            /\ IsSome(WeightsGet(Unwrap(c.linear_regression).weights, signal))
         THEN Unwrap(WeightsGet(Unwrap(c.linear_regression).weights, signal))
         ELSE DefaultCoefficient(signal)

\* the rules boosts counts for doc, by their position in optic_boosts
CountedRules(c, doc) ==
    IF IsSome(c.segment_reader)
    THEN {i \in 1..Len(Unwrap(c.segment_reader).optic_boosts) :
            RuleCounted(Unwrap(c.segment_reader).optic_boosts[i], doc)}
    ELSE {}

Scorers == {[name |-> "scorer", default_if_precalculated |-> FALSE]}
RegionCounts == {"region_count"}
Models == {TheModel}

Returned(op, slot, arg, val) == [op |-> op, slot |-> slot, arg |-> arg, val |-> val]

Update(i, c) == comps' = [comps EXCEPT ![i] = Some(c)]

set_query_centrality(i, scorer) ==
    /\ IsSome(comps[i])
    /\ Update(i, [Unwrap(comps[i]) EXCEPT !.query_centrality = Some(scorer)])
    /\ ret' = Returned("set_query_centrality", i, scorer, "done")
    /\ UNCHANGED <<calls, bangVars>>

set_inbound_similarity(i, scorer) ==
    /\ IsSome(comps[i])
    /\ Update(i, [Unwrap(comps[i]) EXCEPT !.inbound_similarity =
                    Some([scorer EXCEPT !.default_if_precalculated = TRUE])])
    /\ ret' = Returned("set_inbound_similarity", i, scorer, "done")
    /\ UNCHANGED <<calls, bangVars>>

set_region_count(i, region_count) ==
    /\ IsSome(comps[i])
    /\ Update(i, [Unwrap(comps[i]) EXCEPT !.region_count = Some(region_count)])
    /\ ret' = Returned("set_region_count", i, region_count, "done")
    /\ UNCHANGED <<calls, bangVars>>

set_current_timestamp(i, current_timestamp) ==
    /\ IsSome(comps[i])
    /\ Update(i, [Unwrap(comps[i]) EXCEPT !.current_timestamp = Some(current_timestamp)])
    /\ ret' = Returned("set_current_timestamp", i, current_timestamp, "done")
    /\ UNCHANGED <<calls, bangVars>>

set_linear_model(i, linear_model) ==
    /\ IsSome(comps[i])
    /\ Update(i, [Unwrap(comps[i]) EXCEPT !.linear_regression = Some(linear_model)])
    /\ ret' = Returned("set_linear_model", i, linear_model, "done")
    /\ UNCHANGED <<calls, bangVars>>

\* register_segment: on an index read error nothing is assigned
register_segment(i, segment) ==
    /\ IsSome(comps[i])
    /\ LET ok == PrepareTextfields(Unwrap(comps[i]), segment).ok
       IN  /\ Update(i, RegisterResult(Unwrap(comps[i]), segment))
           /\ calls' = IF ok THEN [calls EXCEPT ![i] = <<>>] ELSE calls
           /\ ret' = Returned("register_segment", i, segment.id,
                              IF ok THEN "Ok" ELSE "IndexError")
    /\ UNCHANGED bangVars

\* boosts(doc); calls records the calls made on the current binding
boosts(i, doc) ==
    /\ IsSome(comps[i])
    /\ Len(calls[1]) + Len(calls[2]) < MaxCalls
    /\ LET c == Unwrap(comps[i])
       IN  /\ Update(i, BoostsAfter(c, doc))
           /\ calls' = IF IsSome(c.segment_reader)
                       THEN [calls EXCEPT ![i] = Append(@,
                                [doc |-> doc, counted |-> CountedRules(c, doc),
                                 value |-> BoostsValue(c, doc)])]
                       ELSE calls
           /\ ret' = Returned("boosts", i, doc, BoostsValue(c, doc))
    /\ UNCHANGED bangVars

coefficient(i, signal) ==
    /\ IsSome(comps[i])
    /\ ret' = Returned("coefficient", i, signal, Coefficient(Unwrap(comps[i]), signal))
    /\ UNCHANGED <<comps, calls, bangVars>>

\* computer j is made as a clone of computer i
clone(i, j) ==
    /\ IsSome(comps[i])
    /\ comps[j] = None
    /\ Update(j, CloneOf(Unwrap(comps[i])))
    /\ calls' = [calls EXCEPT ![j] = <<>>]
    /\ ret' = Returned("clone", j, i, "cloned")
    /\ UNCHANGED bangVars

(***************************************************************************)
(* Specifications                                                          *)
(***************************************************************************)
BangsIdle ==
    /\ bangs = EmptyMap
    /\ loadInput = None
    /\ loadState = "start"
    /\ query = <<>>
    /\ hit = None

\* one computer, constructed by new for some query
Init ==
    /\ BangsIdle
    /\ \E q \in QueryInputs :
          /\ comps = [i \in Slots |-> IF i = 1 THEN Some(New(q, ClockNow)) ELSE None]
          /\ ret = Returned("new", 1, q, "constructed")
    /\ calls = [i \in Slots |-> <<>>]

Next ==
    \/ \E s \in Scorers : set_query_centrality(1, s)
    \/ \E s \in Scorers : set_inbound_similarity(1, s)
    \/ \E r \in RegionCounts : set_region_count(1, r)
    \/ \E t \in Timestamps : set_current_timestamp(1, t)
    \/ \E m \in Models : set_linear_model(1, m)
    \/ \E g \in Segments : register_segment(1, g)
    \/ \E d \in Docs : boosts(1, d)
    \/ \E s \in Signals : coefficient(1, s)

Spec == Init /\ [][Next]_vars

\* a prototype computer and its clone, each used on its own
CloneSegments == {SegmentA, SegmentC, SegmentD}

InitClone ==
    /\ BangsIdle
    /\ comps = [i \in Slots |-> IF i = 1 THEN Some(New(Some(TheQuery), ClockNow)) ELSE None]
    /\ ret = Returned("new", 1, Some(TheQuery), "constructed")
    /\ calls = [i \in Slots |-> <<>>]

NextClone ==
    \/ \E r \in RegionCounts : set_region_count(1, r)
    \/ \E t \in Timestamps : set_current_timestamp(1, t)
    \/ \E m \in Models : set_linear_model(1, m)
    \/ \E i \in Slots, g \in CloneSegments : register_segment(i, g)
    \/ \E i \in Slots, d \in Docs : boosts(i, d)
    \/ clone(1, 2)

SpecClone == InitClone /\ [][NextClone]_vars

\* the bang table: loaded once, then looked up
InitBangs ==
    /\ BangsIdle
    /\ comps = [i \in Slots |-> None]
    /\ calls = [i \in Slots |-> <<>>]
    /\ ret = Returned("none", 0, None, None)

NextBangs ==
    \/ \E j \in JsonSources : FromJson(j)
    \/ \E f \in Files : FromPath(f)
    \/ \E t \in Queries : BangsGet(t)

SpecBangs == InitBangs /\ [][NextBangs]_vars

(***************************************************************************)
(* Properties of the bang table                                            *)
(***************************************************************************)
\* the positions of query holding a possible bang whose tag is in the table
KnownBangs == {i \in 1..Len(query) :
                 query[i].kind = "PossibleBang" /\ query[i].text \in DOMAIN bangs}

MaxOf(S) == CHOOSE x \in S : \A y \in S : x >= y

\* the terms of q at the positions of keep, in order
RECURSIVE Pick(_, _, _)
Pick(q, keep, i) ==
    IF i > Len(q) THEN <<>>
    ELSE IF i \in keep THEN <<q[i]>> \o Pick(q, keep, i + 1)
    ELSE Pick(q, keep, i + 1)

\* the redirect is the template with every placeholder filled by the
\* surface forms of the terms at the positions of keep, joined by one space
RedirectFilledWith(keep) ==
    LET joined == Intersperse(TermStrings(Pick(query, keep, 1)), SPACE)
    IN  \A pieces \in TemplatePieces :
            Unwrap(hit).bang.url = Render(pieces, PLACEHOLDER)
                => Unwrap(hit).redirect_to = Render(pieces, joined)

\* C1: get returns a hit for the first possible bang, in term order, whose
\* tag is a key of the table, and None exactly when the query has no
\* possible bang with a tag of the table.
C1_FirstKnownBangWins ==
    loadState = "loaded" =>
        IF KnownBangs = {} THEN hit = None
        ELSE /\ IsSome(hit)
             /\ Unwrap(hit).bang = bangs[query[MinOf(KnownBangs)].text]

\* a hit on a query with a word first and two known bangs of different
\* tags after it
C1_Witness ==
    /\ IsSome(hit)
    /\ Len(query) = 3
    /\ query[1].kind = "Word"
    /\ KnownBangs = {2, 3}
    /\ query[2].text # query[3].text
    /\ bangs[query[2].text].url # bangs[query[3].text].url

\* C2 as stated: the placeholders are filled with all terms of the query but
\* the one chosen bang term, in order, joined by one space.
C2_OnlyChosenTermRemoved ==
    IsSome(hit) =>
        RedirectFilledWith((1..Len(query)) \ {MinOf(KnownBangs)})

\* C2 amended: the placeholders are filled with all terms of the query but
\* the possible bangs whose tag equals the chosen tag (the chosen term and
\* every repetition of it), in order, joined by one space; other possible
\* bangs are kept.
C2_ChosenTagRemoved ==
    IsSome(hit) =>
        RedirectFilledWith({i \in 1..Len(query) :
            ~(query[i].kind = "PossibleBang"
                /\ query[i].text = query[MinOf(KnownBangs)].text)})

\* a hit whose template has two placeholders, on a query that keeps an
\* unknown bang and a word and repeats the chosen bang
C2_Witness ==
    /\ IsSome(hit)
    /\ Unwrap(hit).bang.url = Render(<<<<"{">>, <<"/">>, <<"}">>>>, PLACEHOLDER)
    /\ Len(query) = 3
    /\ \E i, j \in 1..3 :
          /\ query[i].kind = "PossibleBang" /\ query[i].text \notin DOMAIN bangs
          /\ query[j].kind = "Word"
    /\ Unwrap(hit).redirect_to # Unwrap(hit).bang.url

\* the last position of records that holds tag
LastWith(records, tag) == MaxOf({i \in 1..Len(records) : records[i].tag = tag})

\* C3: after a load the table holds one entry per tag of the array, the
\* record that comes last in the array under that tag, and a hit on the tag
\* carries that record.
C3_LastDuplicateWins ==
    loadState = "loaded" =>
        LET records == Unwrap(loadInput).records
        IN  /\ DOMAIN bangs = {records[i].tag : i \in 1..Len(records)}
            /\ \A tag \in DOMAIN bangs : bangs[tag] = records[LastWith(records, tag)]
            /\ IsSome(hit) =>
                  Unwrap(hit).bang = records[LastWith(records, Unwrap(hit).bang.tag)]

\* an array with one tag twice under different templates, and a hit on it
C3_Witness ==
    /\ loadState = "loaded"
    /\ Len(Unwrap(loadInput).records) = 2
    /\ Unwrap(loadInput).records[1].tag = Unwrap(loadInput).records[2].tag
    /\ Unwrap(loadInput).records[1].url # Unwrap(loadInput).records[2].url
    /\ IsSome(hit)
    /\ Unwrap(hit).bang.url = Unwrap(loadInput).records[2].url

\* C4 as stated: a load from a source that is not an array of bang records
\* ends with the error MalformedBangs returned, not with an abort.
C4_MalformedLoadReturnsError ==
    (IsSome(loadInput) /\ Unwrap(loadInput).kind # "array")
        => loadState = "MalformedBangs"

(***************************************************************************)
(* Properties of the SignalComputer                                        *)
(***************************************************************************)
Bound(i) == IsSome(comps[i]) /\ IsSome(Unwrap(comps[i]).segment_reader)

\* the rules bound by computer i, and the last boosts call on its binding
RulesOf(i) == Unwrap(Unwrap(comps[i]).segment_reader).optic_boosts
LastCall(i) == calls[i][Len(calls[i])]

RECURSIVE SumOver(_, _)
SumOver(S, rules) ==
    IF S = {} THEN 0
    ELSE LET r == CHOOSE x \in S : TRUE
         IN  rules[r].boost + SumOver(S \ {r}, rules)

\* C5 as stated: coefficient(s) is the query's value for s if the query
\* supplies one, else the linear model's weight for s if the model has
\* one, else the default coefficient of s.
C5_PerSignalResolution ==
    ret.op = "coefficient" =>
        LET c == Unwrap(comps[ret.slot])
            s == ret.arg
        IN  ret.val =
              IF IsSome(c.query_signal_coefficients)
                 /\ s \in DOMAIN Unwrap(c.query_signal_coefficients)
              THEN Unwrap(c.query_signal_coefficients)[s]
              ELSE IF IsSome(c.linear_regression)
                      /\ s \in DOMAIN Unwrap(c.linear_regression).weights
                   THEN Unwrap(c.linear_regression).weights[s]
                   ELSE DefaultCoefficient(s)

\* C6: with up the sum of the positive boosts and down the sum of the
\* magnitudes of the negative boosts of the rules positioned on doc, boosts
\* returns 1 / (1 + (down - up)) when down > up and (up - down) + 1
\* otherwise: 1/4 for +2 and -5, 4 for +2 and +1, 1 for no rule.
C6_MultiplierFormula ==
    \A i \in Slots :
        (Bound(i) /\ Len(calls[i]) > 0) =>
            LET rules == RulesOf(i)
                on == {r \in 1..Len(rules) : DocOf(rules[r].docset) = LastCall(i).doc}
                up == SumOver({r \in on : rules[r].boost > 0}, rules)
                down == 0 - SumOver({r \in on : rules[r].boost < 0}, rules)
                value == Unwrap(LastCall(i).value)
            IN  /\ down > up => value[1] = 1 /\ value[2] = 1 + (down - up)
                /\ down <= up => value[1] = (up - down) + 1 /\ value[2] = 1
                /\ {rules[r].boost : r \in on} = {2, 0 - 5} /\ Cardinality(on) = 2
                      => value = <<1, 4>>
                /\ {rules[r].boost : r \in on} = {2, 1} /\ Cardinality(on) = 2
                      => value = <<4, 1>>
                /\ on = {} => value = <<1, 1>>

\* boosts returned 1/4 for a doc with the rules +2 and -5 on it
C6_Witness ==
    /\ Bound(1) /\ Len(calls[1]) > 0
    /\ LastCall(1).value = Some(<<1, 4>>)
    /\ {RulesOf(1)[r].boost : r \in LastCall(1).counted} = {2, 0 - 5}

\* C7: boosts returns None exactly when no segment is bound; a new computer
\* and a fresh clone are unbound, a successful register_segment binds, also
\* with zero optic rules, and a bound computer stays bound.
C7_NoneIffUnbound ==
    /\ [](/\ ret.op = "boosts" => (ret.val = None <=> ~Bound(ret.slot))
          /\ ret.op \in {"new", "clone"} => ~Bound(ret.slot)
          /\ (ret.op = "register_segment" /\ ret.val = "Ok") => Bound(ret.slot))
    /\ [][\A i \in Slots : Bound(i) => Bound(i)']_vars

\* the clone bound a segment in which no rule is searchable and boosts
\* returned a value for it, while the original is still unbound
C7_Witness ==
    /\ ret.op = "boosts" /\ ret.slot = 2
    /\ Bound(2) /\ Len(RulesOf(2)) = 0
    /\ ret.val = Some(<<1, 1>>)
    /\ ~Bound(1)

\* the query configuration of a computer: every field but the segment
Configuration(c) == [c EXCEPT !.segment_reader = None]

\* C8: a clone has no bound segment and the configuration of the original,
\* cloning leaves the original as it was, and a register_segment or boosts
\* call on one computer leaves the other computer as it was.
C8_CloneDropsSegmentOnly ==
    [][/\ (ret'.op = "clone" /\ comps[2] = None) =>
            /\ IsSome(comps'[2])
            /\ Unwrap(comps'[2]).segment_reader = None
            /\ Unwrap(comps'[2]) = Configuration(Unwrap(comps[1]))
            /\ comps'[1] = comps[1]
       /\ ret'.op \in {"register_segment", "boosts"} =>
            \A j \in Slots \ {ret'.slot} : comps'[j] = comps[j]]_vars

\* a clone just made of an original that is bound, has moved its cursors
\* and has had its timestamp, region count and linear model set
C8_Witness ==
    /\ ret.op = "clone"
    /\ Bound(1) /\ Len(calls[1]) > 0
    /\ \E r \in 1..Len(RulesOf(1)) :
          DocOf(RulesOf(1)[r].docset) # DocOf(NewDocSet(RulesOf(1)[r].docset.docs))
    /\ ~Bound(2)
    /\ Unwrap(comps[2]).linear_regression = Some(TheModel)
    /\ Unwrap(comps[2]).region_count # None
    /\ Unwrap(comps[2]).current_timestamp # Some(ClockNow)
    /\ Unwrap(comps[2]).query_data = Unwrap(comps[1]).query_data

\* the first k calls on the binding of computer i asked for ascending docs
Ascending(i, k) == \A j \in 1..(k - 1) : calls[i][j].doc < calls[i][j + 1].doc

\* C9: while the docs handed to boosts since register_segment are strictly
\* ascending, a bound rule is counted for doc if and only if doc is in the
\* rule's docset (out of order, a rule holding doc can be left out: see the
\* witness).
C9_ExactWhenAscending ==
    \A i \in Slots :
        Bound(i) =>
            \A k \in 1..Len(calls[i]) :
                Ascending(i, k) =>
                    calls[i][k].counted =
                        {r \in 1..Len(RulesOf(i)) : calls[i][k].doc \in RulesOf(i)[r].docset.docs}

\* a first call that counted the rules holding its doc, then a call for a
\* smaller doc that returned a value and left out a rule holding that doc
C9_Witness ==
    /\ Bound(1) /\ Len(calls[1]) = 2
    /\ calls[1][1].counted # {}
    /\ calls[1][2].doc < calls[1][1].doc
    /\ IsSome(calls[1][2].value)
    /\ \E r \in 1..Len(RulesOf(1)) :
          /\ calls[1][2].doc \in RulesOf(1)[r].docset.docs
          /\ r \notin calls[1][2].counted

\* C10 as stated: after boosts calls on a bound segment every optic
\* docset's cursor is at or before the doc requested last.
C10_CursorAtOrBeforeLast ==
    \A i \in Slots :
        (Bound(i) /\ Len(calls[i]) > 0) =>
            \A r \in 1..Len(RulesOf(i)) : DocOf(RulesOf(i)[r].docset) <= LastCall(i).doc

\* C10 amended: after boosts calls on a bound segment every optic docset's
\* cursor is at or after the doc requested last.
C10_CursorAtOrAfterLast ==
    \A i \in Slots :
        (Bound(i) /\ Len(calls[i]) > 0) =>
            \A r \in 1..Len(RulesOf(i)) : DocOf(RulesOf(i)[r].docset) >= LastCall(i).doc

\* after a call one cursor was moved onto the doc, one was moved past it
\* and one is at the end of its docset
C10_Witness ==
    /\ Bound(1) /\ Len(calls[1]) > 0
    /\ \E r1, r2 \in 1..Len(RulesOf(1)) :
          /\ DocOf(RulesOf(1)[r1].docset) = LastCall(1).doc
          /\ DocOf(RulesOf(1)[r1].docset) # MinOf(RulesOf(1)[r1].docset.docs)
          /\ DocOf(RulesOf(1)[r2].docset) > LastCall(1).doc
          /\ DocOf(RulesOf(1)[r2].docset) < TERMINATED
    /\ \E r3 \in 1..Len(RulesOf(1)) :
          /\ DocOf(RulesOf(1)[r3].docset) = TERMINATED
          /\ RulesOf(1)[r3].docset.docs # {}

\* C11: over a boosts(doc) call on a bound segment, in any order of docs,
\* no optic docset cursor moves to a smaller doc id; a docset whose cursor
\* is past doc is neither advanced nor counted, and a docset whose cursor
\* is on doc is counted without being advanced.
C11_CursorsNeverMoveBack ==
    [][\A i \in Slots :
          (ret'.op = "boosts" /\ ret'.slot = i /\ Bound(i) /\ calls'[i] # calls[i]) =>
              LET doc == ret'.arg
                  before == RulesOf(i)
                  after == Unwrap(Unwrap(comps'[i]).segment_reader).optic_boosts
                  counted == calls'[i][Len(calls'[i])].counted
              IN  /\ Len(after) = Len(before)
                  /\ \A r \in 1..Len(before) :
                        /\ DocOf(after[r].docset) >= DocOf(before[r].docset)
                        /\ DocOf(before[r].docset) > doc =>
                              /\ after[r] = before[r]
                              /\ r \notin counted
                        /\ DocOf(before[r].docset) = doc =>
                              /\ after[r] = before[r]
                              /\ r \in counted]_vars

\* a second call for the doc of the first: a cursor stands on the doc and
\* its rule was counted again, another stands past the doc, before the end
\* of its docset, and its rule was left out
C11_Witness ==
    /\ Bound(1) /\ Len(calls[1]) = 2
    /\ ret.op = "boosts"
    /\ calls[1][2].doc <= calls[1][1].doc
    /\ \E r \in calls[1][1].counted \cap calls[1][2].counted :
          DocOf(RulesOf(1)[r].docset) = calls[1][2].doc
    /\ \E r \in 1..Len(RulesOf(1)) :
          /\ DocOf(RulesOf(1)[r].docset) > calls[1][2].doc
          /\ DocOf(RulesOf(1)[r].docset) < TERMINATED
          /\ r \notin calls[1][2].counted

\* the segment with a given id
SegmentOf(id) == CHOOSE g \in Segments : g.id = id

\* the rules of the query of computer c that are searchable in segment
SearchableIn(c, segment) ==
    IF IsSome(c.query_data)
    THEN SelectSeq(Unwrap(c.query_data).optic_rules,
                   LAMBDA rule : segment.scorers[rule.name] # None)
    ELSE <<>>

\* C12: a register_segment that returns IndexError leaves the computer's
\* bound segment state exactly as it was (unbound, or the earlier segment
\* with its cursor positions); one that returns Ok replaces the binding by
\* the new segment's text fields, fastfield reader and optic docsets, every
\* docset with a fresh cursor.
C12_RegisterAllOrNothing ==
    [][\A i \in Slots :
          (ret'.op = "register_segment" /\ ret'.slot = i) =>
              LET segment == SegmentOf(ret'.arg)
                  c == Unwrap(comps[i])
                  searchable == SearchableIn(c, segment)
                  reader == Unwrap(Unwrap(comps'[i]).segment_reader)
              IN  /\ ret'.val \in {"Ok", "IndexError"}
                  /\ ret'.val = "IndexError" =>
                        /\ comps'[i] = comps[i]
                        /\ calls'[i] = calls[i]
                  /\ ret'.val = "Ok" =>
                        /\ IsSome(Unwrap(comps'[i]).segment_reader)
                        /\ Configuration(Unwrap(comps'[i])) = Configuration(c)
                        /\ reader.fastfield_reader = segment.id
                        /\ DOMAIN reader.text_fields =
                              IF IsSome(c.query_data)
                                 /\ Unwrap(c.query_data).simple_terms # <<>>
                              THEN segment.text_fields ELSE {}
                        /\ \A f \in DOMAIN reader.text_fields :
                              reader.text_fields[f] = segment.id
                        /\ Len(reader.optic_boosts) = Len(searchable)
                        /\ \A r \in 1..Len(searchable) :
                              LET docs == Unwrap(segment.scorers[searchable[r].name])
                              IN  /\ reader.optic_boosts[r].docset.docs = docs
                                  /\ DocOf(reader.optic_boosts[r].docset) =
                                        IF docs = {} THEN TERMINATED ELSE MinOf(docs)
                        /\ calls'[i] = <<>>]_vars

\* register_segment has just returned IndexError on a computer that is
\* still bound to the earlier segment, with the cursors boosts had moved
C12_Witness ==
    /\ ret.op = "register_segment" /\ ret.slot = 1 /\ ret.val = "IndexError"
    /\ Bound(1) /\ Len(calls[1]) > 0
    /\ Unwrap(Unwrap(comps[1]).segment_reader).fastfield_reader # ret.arg
    /\ \E r \in 1..Len(RulesOf(1)) :
          DocOf(RulesOf(1)[r].docset) # DocOf(NewDocSet(RulesOf(1)[r].docset.docs))
====
